---------------------------- MODULE Spec2Model ----------------------------
(***************************************************************************)
(* A model of coffea/processor/work_queue_tools.py: the processing loop of *)
(* CoffeaWQ (submission, wait, resubmission, accumulation scheduling,      *)
(* final accumulation), the splitting of processing tasks, and the dynamic *)
(* chunksize functions.                                                    *)
(*                                                                         *)
(* What is modelled is the control logic as the file writes it.  A task    *)
(* object is a record of the sequence `tasks`; its index is the identity   *)
(* of the Python object.  The Work Queue service is the set `queue` of the *)
(* submitted tasks that wait() has not returned yet; the order in which it *)
(* returns them, each task's outcome and each measured size are inputs.    *)
(* Names that the file resolves inconsistently (stats_coffea and           *)
(* coffea_stats, self.stats, the items argument of                         *)
(* _submit_processing_tasks, result_f, the progress bars) are read as the  *)
(* one object they denote; progress bars and logs are left out.            *)
(***************************************************************************)
EXTENDS Integers, Sequences, FiniteSets, Bags, TLC

VARIABLES
    pc,                   \* where the control thread is
    tasks,                \* every task object built so far
    queue,                \* ids of the tasks held by the Work Queue service
    task,                 \* the task last returned by wait(), 0 for none
    tasks_to_accumulate,  \* CoffeaWQ.tasks_to_accumulate (task ids)
    events_queued,        \* stats_coffea["events_queued"]
    events_processed,     \* stats_coffea["events_processed"]
    events_accumulated,   \* stats_coffea["events_accumulated"]
    events_total,         \* stats_coffea["events_total"]
    early_terminate,      \* the module's global early_terminate
    current_chunksize,    \* CoffeaWQ.current_chunksize
    removed,              \* ids of the tasks whose outfile_output was removed
    accumulator,          \* what _final_accumulation returned (a bag of task ids)
    failures,             \* failed tasks the service may still return
    chunksize,            \* executor.chunksize
    retries,              \* executor.retries
    split_on_exhaustion,  \* executor.split_on_exhaustion
    chunks_per_accum,     \* executor.chunks_per_accum
    dynamic_chunksize,    \* executor.dynamic_chunksize (the resource targets)
    task_reports,         \* CoffeaWQ.task_reports
    sent,                 \* the chunksize of the last items.send(), 0 for next(items)
    value,                \* the argument of a call of _floor_to_pow2
    floored               \* what that call returned, 0 before the call

vars == <<pc, tasks, queue, task, tasks_to_accumulate, events_queued,
          events_processed, events_accumulated, events_total, early_terminate,
          current_chunksize, removed, accumulator, failures, chunksize,
          retries, split_on_exhaustion, chunks_per_accum, dynamic_chunksize,
          task_reports, sent, value, floored>>

\* what one run of the processing loop does not change
cfgvars == <<events_total, chunksize, retries, split_on_exhaustion,
             chunks_per_accum, dynamic_chunksize, value, floored>>

(***************************************************************************)
(* Bounds of the model.                                                    *)
(***************************************************************************)
MaxEvents == 5      \* events_total of the runs of single-event chunks
MaxChunk == 2       \* executor.chunksize of the runs with failures
PoolSize == 3       \* the queue is hungry while it holds fewer tasks
MaxFout == 2        \* measured output sizes are 1..MaxFout
MaxRetries == 2     \* executor.retries is 0..MaxRetries
MaxFailures == 2    \* failed tasks the service returns in one run
MaxAccum == 3       \* the largest executor.chunks_per_accum

\* The runs that are checked: a run of MaxEvents chunks of one event merged
\* MaxAccum at a time, where a task that fails stops the run; and runs of two
\* chunks of MaxChunk events merged two at a time (run() raises a
\* chunks_per_accum below 2 to 2), with every retry budget, with and without
\* split_on_exhaustion, where up to MaxFailures tasks fail.
Runs ==
    {[events_total |-> MaxEvents, chunksize |-> 1, chunks_per_accum |-> MaxAccum,
      retries |-> 0, split_on_exhaustion |-> TRUE, failures |-> 1]}
    \cup
    {[events_total |-> 2 * MaxChunk, chunksize |-> MaxChunk, chunks_per_accum |-> 2,
      retries |-> r, split_on_exhaustion |-> s, failures |-> MaxFailures] :
        r \in 0 .. MaxRetries, s \in BOOLEAN}

\* wq.WORK_QUEUE_RESULT_SUCCESS, wq.WORK_QUEUE_RESULT_RESOURCE_EXHAUSTION, and
\* any other failure
Results == {"success", "resource_exhaustion", "failure"}

NoBag == EmptyBag

(***************************************************************************)
(* Task objects.                                                           *)
(***************************************************************************)
\* ProcCoffeaWQTask.__init__ (with CoffeaWQTask.__init__): retries_to_go is
\* executor.retries for every task that is constructed.
ProcTask(id, start, stop, itemid, budget, parent, via) ==
    [category |-> "processing", size |-> stop - start, entrystart |-> start,
     entrystop |-> stop, itemid |-> itemid, retries_to_go |-> budget,
     children |-> <<>>, fout_size |-> 0, result |-> "none",
     parent |-> parent, via |-> via, output |-> SetToBag({id})]

RECURSIVE SumSize(_, _)
SumSize(ts, lst) ==
    IF lst = <<>> THEN 0 ELSE ts[Head(lst)].size + SumSize(ts, Tail(lst))

RECURSIVE SumOutput(_, _)
SumOutput(ts, lst) ==
    IF lst = <<>> THEN NoBag ELSE ts[Head(lst)].output (+) SumOutput(ts, Tail(lst))

\* AccumCoffeaWQTask.__init__: size is the sum of the children's sizes; its
\* output is the merge of the children's outputs (accumulate_result_files).
AccumTask(ts, lst, itemid, budget, parent, via) ==
    [category |-> "accumulating", size |-> SumSize(ts, lst), entrystart |-> 0,
     entrystop |-> 0, itemid |-> itemid, retries_to_go |-> budget,
     children |-> lst, fout_size |-> 0, result |-> "none",
     parent |-> parent, via |-> via, output |-> SumOutput(ts, lst)]

(***************************************************************************)
(* _group_lst and the sort of _submit_accum_tasks.                         *)
(***************************************************************************)
Min(a, b) == IF a < b THEN a ELSE b
Max(a, b) == IF a > b THEN a ELSE b

\* lst[i : i + n] for i in range(0, len(lst), n)
GroupLst(lst, n) ==
    [g \in 1 .. ((Len(lst) + n - 1) \div n) |->
        SubSeq(lst, (g - 1) * n + 1, Min(g * n, Len(lst)))]

\* a list that is left in the order of arrival
SortByArrival(ts, lst) == lst

\* list.sort(key=fout_size) is stable: insert x after the last element whose
\* key is not greater.
RECURSIVE InsertSorted(_, _, _)
InsertSorted(ts, sorted, x) ==
    IF sorted = <<>> THEN <<x>>
    ELSE LET l == sorted[Len(sorted)] IN
         IF ts[l].fout_size <= ts[x].fout_size THEN Append(sorted, x)
         ELSE Append(InsertSorted(ts, SubSeq(sorted, 1, Len(sorted) - 1), x), l)

RECURSIVE SortByFout(_, _)
SortByFout(ts, lst) ==
    IF lst = <<>> THEN <<>>
    ELSE InsertSorted(ts, SortByFout(ts, SubSeq(lst, 1, Len(lst) - 1)), lst[Len(lst)])

(***************************************************************************)
(* CoffeaWQ._submit_accum_tasks.  st is [tasks, queue, pending].           *)
(***************************************************************************)
Force(processed, total, early) == early \/ processed >= total

\* a loop over the groups that submits a last group of 2 or more tasks
\* whether force is set or not
RECURSIVE EmitGroupsUnderfull(_, _, _, _, _)
EmitGroupsUnderfull(groups, i, st, force, k) ==
    IF i > Len(groups) THEN st
    ELSE LET g == groups[i] IN
         IF Len(g) < 2
         THEN [st EXCEPT !.pending = g]
         ELSE LET id == Len(st.tasks) + 1
                  t == AccumTask(st.tasks, g, id, st.budget, 0, "accum")
              IN EmitGroupsUnderfull(groups, i + 1,
                            [st EXCEPT !.tasks = Append(st.tasks, t),
                                       !.queue = st.queue \cup {id}],
                            force, k)

\* the for loop over the groups: the break keeps the group as the new
\* tasks_to_accumulate; a loop that runs to its end leaves the list as sorted.
RECURSIVE EmitGroups(_, _, _, _, _)
EmitGroups(groups, i, st, force, k) ==
    IF i > Len(groups) THEN st
    ELSE LET g == groups[i] IN
         IF Len(g) < 2 \/ (Len(g) < k /\ ~force)
         THEN [st EXCEPT !.pending = g]
         ELSE LET id == Len(st.tasks) + 1
                  t == AccumTask(st.tasks, g, id, st.budget, 0, "accum")
              IN EmitGroups(groups, i + 1,
                            [st EXCEPT !.tasks = Append(st.tasks, t),
                                       !.queue = st.queue \cup {id}],
                            force, k)

\* a scheduler that starts to merge as soon as one group is full
SubmitAccumTasksEager(st, force, k) ==
    IF Len(st.pending) < k /\ ~force THEN st
    ELSE LET sorted == SortByFout(st.tasks, st.pending)
         IN EmitGroups(GroupLst(sorted, k), 1, [st EXCEPT !.pending = sorted], force, k)

SubmitAccumTasks(st, force, k) ==
    IF Len(st.pending) < 2 * k - 1 /\ ~force THEN st
    ELSE LET sorted == SortByFout(st.tasks, st.pending)
         IN EmitGroups(GroupLst(sorted, k), 1, [st EXCEPT !.pending = sorted], force, k)

(***************************************************************************)
(* ProcCoffeaWQTask.split: the ranges of the children.                     *)
(***************************************************************************)
CeilDiv(a, b) == (a + b - 1) \div b

\* a target that is not halved for a task no larger than the current chunksize
TargetChunksizeWhole(total, current) == current

TargetChunksize(total, current) ==
    IF total <= current THEN CeilDiv(total, 2) ELSE current

\* a split that rounds the size of a child down
ActualChunksizeFloor(total, current) ==
    LET target == TargetChunksize(total, current)
        n == Max(CeilDiv(total, target), 1)
    IN Max(total \div n, 1)

ActualChunksize(total, current) ==
    LET target == TargetChunksize(total, current)
        n == Max(CeilDiv(total, target), 1)
    IN CeilDiv(total, n)

RECURSIVE SplitRanges(_, _, _)
SplitRanges(start, entrystop, actual) ==
    IF start < entrystop
    THEN LET stop == Min(entrystop, start + actual)
         IN <<[entrystart |-> start, entrystop |-> stop]>>
              \o SplitRanges(stop, entrystop, actual)
    ELSE <<>>

\* the ranges split() builds for a processing task of at least 2 events
Split(start, stop, current) ==
    SplitRanges(start, stop, ActualChunksize(stop - start, current))

(***************************************************************************)
(* CoffeaWQTask.resubmit.                                                  *)
(***************************************************************************)
\* the guard that raises "failed permanently"
FailsPermanently(t, split_enabled) == t.retries_to_go < 1 \/ ~split_enabled

\* the budget of the clone resubmit() submits
CloneBudget(t) == t.retries_to_go - 1

\* a split whose children take over the budget of the task that is split
SplitBudgetKept(t, initial) == t.retries_to_go

\* the budget of a task split() constructs: CoffeaWQTask.__init__ sets it
SplitBudget(t, initial) == initial

\* the tasks split() returns, appended to ts
RECURSIVE AppendSplits(_, _, _, _)
AppendSplits(ts, ranges, pid, initial) ==
    IF ranges = <<>> THEN ts
    ELSE LET id == Len(ts) + 1
             r == Head(ranges)
         IN AppendSplits(
                Append(ts, ProcTask(id, r.entrystart, r.entrystop, id,
                                    SplitBudget(ts[pid], initial), pid, "split")),
                Tail(ranges), pid, initial)

\* the clone of task pid (clone() keeps the itemid and the payload)
CloneOf(ts, pid) ==
    LET t == ts[pid] IN
    IF t.category = "processing"
    THEN ProcTask(Len(ts) + 1, t.entrystart, t.entrystop, t.itemid,
                  CloneBudget(t), pid, "clone")
    ELSE AccumTask(ts, t.children, t.itemid, CloneBudget(t), pid, "clone")

(***************************************************************************)
(* The dynamic chunksize functions.  A number that need not be an integer  *)
(* (a rate, a slope, a candidate chunksize) is a record [num, den] with    *)
(* den > 0; the arithmetic is exact.                                       *)
(***************************************************************************)
Rat(n, d) == [num |-> n, den |-> d]
RatLess(a, b) == a.num * b.den < b.num * a.den
RatLeq(a, b) == a.num * b.den <= b.num * a.den
RatEq(a, b) == a.num * b.den = b.num * a.den

\* pow(2, math.floor(math.log2(value))) for a value of at least 1
RECURSIVE Pow2Below(_, _)
Pow2Below(x, p) == IF RatLeq(Rat(2 * p, 1), x) THEN Pow2Below(x, 2 * p) ELSE p

\* a rounding to the power of two above
CeilToPow2(x) ==
    IF RatLess(x, Rat(1, 1)) THEN 1
    ELSE IF RatEq(x, Rat(Pow2Below(x, 1), 1)) THEN Pow2Below(x, 1)
    ELSE 2 * Pow2Below(x, 1)

\* _floor_to_pow2
FloorToPow2(x) == IF RatLess(x, Rat(1, 1)) THEN 1 ELSE Pow2Below(x, 1)

\* TaskReport(len(task), wall_time, memory)
TaskReport(events, wall, mem) ==
    [events_count |-> events, wall_time |-> wall, memory |-> mem]

\* [(time, evs) for (evs, time, mem) in task_reports], and the same for memory
TimePairs(reports) ==
    [i \in 1 .. Len(reports) |->
        [res |-> reports[i].wall_time, evs |-> reports[i].events_count]]
MemoryPairs(reports) ==
    [i \in 1 .. Len(reports) |->
        [res |-> reports[i].memory, evs |-> reports[i].events_count]]

\* avgs = [e / max(1, target) for (target, e) in pairs]
Avgs(pairs) == [i \in 1 .. Len(pairs) |-> Rat(pairs[i].evs, Max(1, pairs[i].res))]

\* numpy rounds an index half way between two integers to the even one
RoundHalfEven(p, q) ==
    LET f == p \div q
        r == p % q
    IN IF 2 * r < q THEN f
       ELSE IF 2 * r > q THEN f + 1
       ELSE IF f % 2 = 0 THEN f ELSE f + 1

\* the element of rank idx (from 0) of the sorted values
Ranked(vals, idx) ==
    LET n == Len(vals)
        below(i) == Cardinality({j \in 1 .. n : RatLess(vals[j], vals[i])})
        upto(i) == Cardinality({j \in 1 .. n : RatLeq(vals[j], vals[i])})
    IN vals[CHOOSE i \in 1 .. n : below(i) <= idx /\ idx < upto(i)]

\* numpy.quantile(avgs, q, interpolation="nearest") for q = quarter / 4
Quantile(vals, quarter) == Ranked(vals, RoundHalfEven(quarter * (Len(vals) - 1), 4))

\* the pairs kept: those whose rate is not below the 25% quantile
RECURSIVE PairsFiltered(_, _, _)
PairsFiltered(pairs, avgs, q25) ==
    IF pairs = <<>> THEN <<>>
    ELSE (IF RatLeq(q25, Head(avgs)) THEN <<Head(pairs)>> ELSE <<>>)
            \o PairsFiltered(Tail(pairs), Tail(avgs), q25)

RECURSIVE SumSeq(_)
SumSeq(xs) == IF xs = <<>> THEN 0 ELSE Head(xs) + SumSeq(Tail(xs))

\* scipy.stats.linregress(x = resource, y = events): slope sxy / sxx and
\* intercept icp / (n * sxx); there is no fit (an exception, or nan) for less
\* than two points or when all x are the same
LinRegress(pairs) ==
    LET n == Len(pairs)
        sx == SumSeq([i \in 1 .. n |-> pairs[i].res])
        sy == SumSeq([i \in 1 .. n |-> pairs[i].evs])
        sxx == n * SumSeq([i \in 1 .. n |-> pairs[i].res * pairs[i].res]) - sx * sx
        sxy == n * SumSeq([i \in 1 .. n |-> pairs[i].res * pairs[i].evs]) - sx * sy
    IN [defined |-> n >= 2 /\ sxx # 0, n |-> n, sxx |-> sxx, sxy |-> sxy,
        icp |-> sy * sxx - sxy * sx]

\* a guard that keeps a fit with a positive intercept
FitRejectedSlopeOnly(fit) == ~fit.defined \/ fit.sxy < 0

\* slope is None or nan, or slope < 0, or intercept > 0
FitRejected(fit) == ~fit.defined \/ fit.sxy < 0 \/ fit.icp > 0

\* _compute_chunksize_target: [none |-> TRUE] for None, else the candidate
ComputeChunksizeTarget(target, pairs) ==
    IF Len(pairs) < 1 \/ pairs[1].res < 0 THEN [none |-> TRUE]
    ELSE LET avgs == Avgs(pairs)
             fit == LinRegress(PairsFiltered(pairs, avgs, Quantile(avgs, 1)))
             median == Quantile(avgs, 2)
         IN IF FitRejected(fit)
            THEN [none |-> FALSE, median |-> TRUE,
                  org |-> Rat(median.num * target, median.den)]
            ELSE [none |-> FALSE, median |-> FALSE,
                  org |-> Rat(fit.n * fit.sxy * target + fit.icp, fit.n * fit.sxx)]

\* resource_targets is a dict: a function of the keys it has.  A target is
\* requested when its key is there and its value is neither None nor 0
\* (0 stands for both)
Requested(targets, key) == key \in DOMAIN targets /\ targets[key] # 0

\* candidate_sizes = [c for c in [chunksize_time, chunksize_memory] if c]
IsCandidate(c) == ~c.none /\ c.org.num # 0

\* min(candidate_sizes)
MinCandidate(cs) ==
    LET c == CHOOSE c \in cs : \A d \in cs : RatLeq(c.org, d.org) IN c.org

\* resource_targets["memory"] raises KeyError
RaisesKeyError(targets, reports) ==
    Len(reports) > 1 /\ "memory" \notin DOMAIN targets

\* _compute_chunksize, when it does not raise: the new chunksize
ComputeChunksize(base, targets, reports) ==
         LET evaluated == Len(reports) > 1
             time == IF evaluated /\ Requested(targets, "wall_time")
                     THEN ComputeChunksizeTarget(targets.wall_time, TimePairs(reports))
                     ELSE [none |-> TRUE]
             memory == IF evaluated /\ Requested(targets, "memory")
                       THEN ComputeChunksizeTarget(targets.memory, MemoryPairs(reports))
                       ELSE [none |-> TRUE]
             cs == {c \in {time, memory} : IsCandidate(c)}
         IN FloorToPow2(IF cs # {} THEN MinCandidate(cs) ELSE Rat(base, 1))

\* if ex.dynamic_chunksize: a dict with at least one key
Dynamic(targets) == DOMAIN targets # {}

\* _update_chunksize, when it does not raise: the new current_chunksize
UpdateChunksize(base, targets, reports, current) ==
    IF Dynamic(targets) THEN ComputeChunksize(base, targets, reports) ELSE current

(***************************************************************************)
(* The run.                                                                *)
(***************************************************************************)
\* a counter that is set to the amount instead of raised by it
StatsSet(stat, delta) == delta

\* Stats.inc: the new value of a counter
StatsInc(stat, delta) == stat + delta

\* WorkQueue.hungry(): the service wants more tasks
Hungry(q) == Cardinality(q) < PoolSize

\* the item source: next(items) hands out the next chunksize events of the input
NextItem(size, left) == Min(size, left)

\* executor.dynamic_chunksize of a run without dynamic chunksize
NoTargets == <<>>

Running == pc \in {"head", "submit", "wait", "handle"}

\* the state _processing starts its loop in, for the run of one executor
InitRunWith(run, targets) ==
    /\ pc = "head"
    /\ tasks = <<>>
    /\ queue = {}
    /\ task = 0
    /\ tasks_to_accumulate = <<>>
    /\ events_queued = 0
    /\ events_processed = 0
    /\ events_accumulated = 0
    /\ early_terminate = FALSE
    /\ removed = {}
    /\ accumulator = NoBag
    /\ dynamic_chunksize = targets
    /\ sent = 0
    /\ task_reports = <<>>
    /\ value = Rat(0, 1)
    /\ floored = 0
    /\ events_total = run.events_total
    /\ chunksize = run.chunksize
    /\ current_chunksize = run.chunksize
    /\ failures = run.failures
    /\ retries = run.retries
    /\ split_on_exhaustion = run.split_on_exhaustion
    /\ chunks_per_accum = run.chunks_per_accum

\* a run without dynamic chunksize
InitRun(run) == InitRunWith(run, NoTargets)

Init == \E run \in Runs : InitRun(run)

\* _process_events: the while condition and the early_terminate break
LoopHead ==
    /\ pc = "head"
    /\ pc' = IF events_accumulated >= events_total THEN "final"
             ELSE IF early_terminate /\ queue = {} THEN "final"
             ELSE "submit"
    /\ UNCHANGED <<tasks, queue, task, tasks_to_accumulate, events_queued,
                   events_processed, events_accumulated, early_terminate,
                   current_chunksize, removed, accumulator, failures>>
    /\ UNCHANGED <<cfgvars, task_reports, sent>>

\* a sample that is not kept from falling below 1
SampleChunksizeNoFloor(current) == {current, current \div 2}

\* int(x) for a number that is not negative
IntOf(x) == x.num \div x.den

\* _sample_chunksize: what random.choices can pick of
\* [chunksize, max(chunksize / 2, 1)], made an int
SampleChunksize(current) ==
    LET half == Rat(current, 2)
    IN {IntOf(Rat(current, 1)),
        IntOf(IF RatLess(Rat(1, 1), half) THEN half ELSE Rat(1, 1))}

\* an item source that is sent a sample at its first pull too
HintsAlways(targets, queued, current) ==
    IF Dynamic(targets) THEN SampleChunksize(current) ELSE {0}

\* what a pull of the item source may pass: a sample of the current chunksize
\* for items.send(), 0 for next(items)
Hints(targets, queued, current) ==
    IF Dynamic(targets) /\ queued > 0 THEN SampleChunksize(current) ELSE {0}

\* _submit_processing_tasks, one turn of its loop that submits: the queue is
\* hungry and the item source hands out the next item, of the chunksize sent
\* or of executor.chunksize
SubmitProcessingTask ==
    /\ pc = "submit"
    /\ ~early_terminate
    /\ Hungry(queue)
    /\ events_queued < events_total
    /\ \E hint \in Hints(dynamic_chunksize, events_queued, current_chunksize) :
         LET size == NextItem(IF hint = 0 THEN chunksize ELSE hint,
                              events_total - events_queued)
             id == Len(tasks) + 1 IN
         /\ tasks' = Append(tasks, ProcTask(id, events_queued, events_queued + size,
                                            id, retries, 0, "item"))
         /\ queue' = queue \cup {id}
         /\ events_queued' = StatsInc(events_queued, size)
         /\ sent' = hint
    /\ UNCHANGED <<pc, task, tasks_to_accumulate, events_processed,
                   events_accumulated, early_terminate, current_chunksize,
                   removed, accumulator, failures>>
    /\ UNCHANGED <<cfgvars, task_reports>>

\* _submit_processing_tasks returns: early_terminate, or the queue is not
\* hungry, or everything is queued
SubmitReturn ==
    /\ pc = "submit"
    /\ early_terminate \/ ~Hungry(queue) \/ events_queued >= events_total
    /\ pc' = "wait"
    /\ UNCHANGED <<tasks, queue, task, tasks_to_accumulate, events_queued,
                   events_processed, events_accumulated, early_terminate,
                   current_chunksize, removed, accumulator, failures>>
    /\ UNCHANGED <<cfgvars, task_reports, sent>>

\* wait(5) returns None
WaitTimeout ==
    /\ pc = "wait"
    /\ pc' = "head"
    /\ task' = 0
    /\ UNCHANGED <<tasks, queue, tasks_to_accumulate, events_queued,
                   events_processed, events_accumulated, early_terminate,
                   current_chunksize, removed, accumulator, failures>>
    /\ UNCHANGED <<cfgvars, task_reports, sent>>

\* the files cleanup_inputs() removes when wait() returns task t
CleanupInputs(t) ==
    IF t.category = "accumulating" THEN {t.children[i] : i \in 1 .. Len(t.children)}
    ELSE {}

\* CoffeaWQ.wait returns a task: the service picks it and its outcome; a task
\* whose input file is gone cannot succeed and is returned as failed, any
\* other task fails only while failures are left.  cleanup_inputs() runs for
\* every returned task, and os.remove raises for a file already removed.
WaitTask ==
    /\ pc = "wait"
    /\ \E id \in queue, res \in Results, fout \in 1 .. MaxFout :
         LET t == tasks[id]
             gone == CleanupInputs(t) \cap removed
         IN
         /\ res = "success" => gone = {}
         /\ res # "success" => (failures > 0 \/ gone # {}) /\ fout = 1
         /\ queue' = queue \ {id}
         /\ task' = id
         /\ tasks' = [tasks EXCEPT ![id].result = res,
                                   ![id].fout_size = IF res = "success" THEN fout ELSE 0]
         /\ failures' = IF res = "success" \/ failures = 0 THEN failures
                         ELSE failures - 1
         /\ removed' = removed \cup CleanupInputs(t)
         /\ pc' = IF gone = {} THEN "handle" ELSE "error"
    /\ UNCHANGED <<tasks_to_accumulate, events_queued, events_processed,
                   events_accumulated, early_terminate, current_chunksize,
                   accumulator>>
    /\ UNCHANGED <<cfgvars, task_reports, sent>>

\* task.resubmit(self) for a task that was not successful
Resubmit ==
    /\ pc = "handle"
    /\ tasks[task].result # "success"
    /\ LET t == tasks[task] IN
       IF FailsPermanently(t, split_on_exhaustion)
       THEN /\ pc' = "fatal"
            /\ UNCHANGED <<tasks, queue>>
       ELSE IF t.result = "resource_exhaustion"
       THEN IF t.category = "processing" /\ t.size >= 2
            THEN /\ tasks' = AppendSplits(tasks,
                                 Split(t.entrystart, t.entrystop, current_chunksize),
                                 task, retries)
                 /\ queue' = queue \cup (Len(tasks) + 1 .. Len(tasks'))
                 /\ pc' = "head"
            ELSE \* split() raises RuntimeError
                 /\ pc' = "error"
                 /\ UNCHANGED <<tasks, queue>>
       ELSE /\ tasks' = Append(tasks, CloneOf(tasks, task))
            /\ queue' = queue \cup {Len(tasks) + 1}
            /\ pc' = "head"
    /\ UNCHANGED <<task, tasks_to_accumulate, events_queued, events_processed,
                   events_accumulated, early_terminate, current_chunksize,
                   removed, accumulator, failures>>
    /\ UNCHANGED <<cfgvars, task_reports, sent>>

\* the rest of the loop body for a successful task: append, report, count,
\* _update_chunksize, _submit_accum_tasks.  The measured wall time and memory
\* of the report are 1: they play no part while dynamic_chunksize is off.
Accumulate ==
    /\ pc = "handle"
    /\ tasks[task].result = "success"
    /\ LET t == tasks[task]
           reports == IF t.category = "processing"
                      THEN Append(task_reports, TaskReport(t.size, 1, 1))
                      ELSE task_reports
           processed == IF t.category = "processing"
                        THEN StatsInc(events_processed, t.size)
                        ELSE events_processed
           st == SubmitAccumTasks(
                     [tasks |-> tasks, queue |-> queue,
                      pending |-> Append(tasks_to_accumulate, task),
                      budget |-> retries],
                     Force(processed, events_total, early_terminate),
                     chunks_per_accum)
       IN
       /\ task_reports' = reports
       /\ current_chunksize' =
             IF t.category = "processing"
             THEN UpdateChunksize(chunksize, dynamic_chunksize, reports, current_chunksize)
             ELSE current_chunksize
       /\ events_processed' = processed
       /\ events_accumulated' = IF t.category = "processing"
                                THEN events_accumulated
                                ELSE StatsInc(events_accumulated, t.size)
       /\ tasks' = st.tasks
       /\ queue' = st.queue
       /\ tasks_to_accumulate' = st.pending
    /\ pc' = "head"
    /\ UNCHANGED <<task, events_queued, early_terminate, removed, accumulator,
                   failures>>
    /\ UNCHANGED <<cfgvars, sent>>

\* a cancellation that takes every task from the service
CancelAll(ts, held, category) == {}

\* cancel_by_category: the tasks the service still holds
CancelByCategory(ts, held, category) ==
    {id \in held : ts[id].category # category}

\* _handle_early_terminate, the first signal
FirstSignal ==
    /\ Running
    /\ ~early_terminate
    /\ early_terminate' = TRUE
    /\ queue' = CancelByCategory(tasks, queue, "processing")
    /\ UNCHANGED <<pc, tasks, task, tasks_to_accumulate, events_queued,
                   events_processed, events_accumulated, current_chunksize,
                   removed, accumulator, failures>>
    /\ UNCHANGED <<cfgvars, task_reports, sent>>

\* _handle_early_terminate, a signal when early_terminate is set
SecondSignal ==
    /\ Running \/ pc = "final"
    /\ early_terminate
    /\ pc' = "interrupted"
    /\ UNCHANGED <<tasks, queue, task, tasks_to_accumulate, events_queued,
                   events_processed, events_accumulated, early_terminate,
                   current_chunksize, removed, accumulator, failures>>
    /\ UNCHANGED <<cfgvars, task_reports, sent>>

\* _final_accumulation
FinalAccumulation ==
    /\ pc = "final"
    /\ LET pending == {tasks_to_accumulate[i] : i \in 1 .. Len(tasks_to_accumulate)} IN
       IF Len(tasks_to_accumulate) < 1 \/ pending \cap removed # {}
       THEN /\ pc' = "error"
            /\ UNCHANGED <<accumulator, removed>>
       ELSE /\ pc' = "done"
            /\ accumulator' = SumOutput(tasks, tasks_to_accumulate)
            /\ removed' = removed \cup pending
    /\ UNCHANGED <<tasks, queue, task, tasks_to_accumulate, events_queued,
                   events_processed, events_accumulated, early_terminate,
                   current_chunksize, failures>>
    /\ UNCHANGED <<cfgvars, task_reports, sent>>

Next ==
    \/ LoopHead
    \/ SubmitProcessingTask
    \/ SubmitReturn
    \/ WaitTimeout
    \/ WaitTask
    \/ Resubmit
    \/ Accumulate
    \/ FirstSignal
    \/ SecondSignal
    \/ FinalAccumulation

Spec == Init /\ [][Next]_vars

(***************************************************************************)
(* Properties of the processing loop.                                      *)
(***************************************************************************)
TaskIds == 1 .. Len(tasks)
Pending == {tasks_to_accumulate[i] : i \in 1 .. Len(tasks_to_accumulate)}
Children(a) == {tasks[a].children[i] : i \in 1 .. Len(tasks[a].children)}
AccumIds == {a \in TaskIds : tasks[a].category = "accumulating"}
Completed == {t \in TaskIds : tasks[t].category = "processing"
                                /\ tasks[t].result = "success"}

\* C1: a run that ends without cancellation has merged the output of every
\* successfully completed processing task into the final accumulator exactly
\* once.
C1_EveryLeafOnce ==
    (pc = "done" /\ ~early_terminate) => accumulator = SetToBag(Completed)

\* C2: no task is a child of two different accumulation tasks (a clone has
\* the itemid of the task it retries), and no child of an accumulation task is
\* merged by the final accumulation.
C2_NoSharedChild ==
    /\ \A a, b \in AccumIds :
          tasks[a].itemid # tasks[b].itemid => Children(a) \cap Children(b) = {}
    /\ pc = "done" => \A a \in AccumIds : Children(a) \cap Pending = {}

\* the number of the failure of task t in its chain of clones
RECURSIVE NthFailure(_)
NthFailure(t) ==
    IF tasks[t].via = "clone" THEN 1 + NthFailure(tasks[t].parent) ELSE 1

\* the last task wait() returned has been handled by resubmit()
Resubmitted(res) == pc = "head" /\ task # 0 /\ tasks[task].result = res

\* C3: a task that keeps failing for another reason than resource exhaustion
\* is resubmitted after each of its first retries failures, and "failed
\* permanently" is raised on failure number retries + 1 and not before.
C3_FatalAfterBudget ==
    /\ (pc = "fatal" /\ tasks[task].result = "failure")
          => NthFailure(task) = retries + 1
    /\ (Resubmitted("failure") /\ NthFailure(task) <= retries)
          => \E c \in TaskIds : tasks[c].parent = task /\ tasks[c].via = "clone"

\* C5 as claimed: a clone has one retry less than the task it retries, and a
\* child of a split has the retry budget of the task that was split.
C5_SplitKeepsBudget ==
    \A t \in TaskIds :
        /\ tasks[t].via = "clone"
              => tasks[t].retries_to_go = tasks[tasks[t].parent].retries_to_go - 1
        /\ tasks[t].via = "split"
              => tasks[t].retries_to_go = tasks[tasks[t].parent].retries_to_go

\* C5 as amended: a clone has one retry less than the task it retries, and a
\* child of a split starts with executor.retries, whatever is left of the
\* budget of the task that was split.
C5_SplitResetsBudget ==
    \A t \in TaskIds :
        /\ tasks[t].via = "clone"
              => tasks[t].retries_to_go = tasks[tasks[t].parent].retries_to_go - 1
        /\ tasks[t].via = "split"
              => /\ tasks[t].retries_to_go = retries
                 /\ tasks[t].retries_to_go >= tasks[tasks[t].parent].retries_to_go

\* a clone whose budget was decremented has been split
C5_Witness ==
    \E t \in TaskIds :
        /\ tasks[t].via = "split"
        /\ tasks[tasks[t].parent].via = "clone"
        /\ tasks[t].retries_to_go > tasks[tasks[t].parent].retries_to_go

\* C6: a processing task of more than one event that fails with resource
\* exhaustion is split, whatever is left of its retry budget.
C6_ExhaustionSplits ==
    \A t \in TaskIds :
        (/\ t = task
         /\ split_on_exhaustion
         /\ pc \in {"head", "fatal"}
         /\ tasks[t].category = "processing"
         /\ tasks[t].size > 1
         /\ tasks[t].result = "resource_exhaustion")
        => /\ pc = "head"
           /\ \E c \in TaskIds : tasks[c].parent = t /\ tasks[c].via = "split"

\* C10: tasks_to_accumulate never holds more than 2 * chunks_per_accum - 1
\* tasks, and fewer than that after a call of _submit_accum_tasks without
\* force.
C10_PendingBounded ==
    /\ Len(tasks_to_accumulate) <= 2 * chunks_per_accum - 1
    /\ ~Force(events_processed, events_total, early_terminate)
          => Len(tasks_to_accumulate) < 2 * chunks_per_accum - 1

(***************************************************************************)
(* resubmit() of one failed processing task, for every range, every        *)
(* current chunksize, every budget.                                        *)
(***************************************************************************)
MaxStart == 2       \* entrystart is 0..MaxStart
MaxLen == 8         \* the task has 1..MaxLen events
MaxCurrent == 9     \* current_chunksize is 1..MaxCurrent

InitResubmit ==
    /\ pc = "handle"
    /\ task = 1
    /\ queue = {}
    /\ tasks_to_accumulate = <<>>
    /\ events_processed = 0
    /\ events_accumulated = 0
    /\ early_terminate = FALSE
    /\ removed = {}
    /\ accumulator = NoBag
    /\ failures = 0
    /\ chunks_per_accum = 2
    /\ dynamic_chunksize = NoTargets
    /\ task_reports = <<>>
    /\ sent = 0
    /\ value = Rat(0, 1)
    /\ floored = 0
    /\ retries \in 0 .. 1
    /\ split_on_exhaustion \in BOOLEAN
    /\ current_chunksize \in 1 .. MaxCurrent
    /\ chunksize = current_chunksize
    /\ \E start \in 0 .. MaxStart, len \in 1 .. MaxLen,
          res \in {"resource_exhaustion", "failure"} :
         /\ tasks = <<[ProcTask(1, start, start + len, 1, retries, 0, "item")
                         EXCEPT !.result = res]>>
         /\ events_queued = start + len
         /\ events_total = start + len

SpecResubmit == InitResubmit /\ [][Resubmit]_vars

\* the children of the split of task 1, in the order split() built them
SplitChildren == SubSeq(tasks, 2, Len(tasks))
WasSplit == pc = "head" /\ Len(tasks) >= 2 /\ tasks[2].via = "split"

\* the effective target of C4: the current chunksize if it is below the
\* size of the task, else half of the size rounded up
EffectiveTarget(total) ==
    IF current_chunksize < total THEN current_chunksize
    ELSE IF total % 2 = 0 THEN total \div 2 ELSE (total + 1) \div 2

\* C4: the children of a split of [a, b) are contiguous, not empty, start at
\* a and end at b, and there are ceil((b - a) / c) of them, c the effective
\* target.
C4_SplitCoversRange ==
    WasSplit =>
        LET kids == SplitChildren
            n == Len(kids)
            total == tasks[1].size
            c == EffectiveTarget(total)
        IN /\ kids[1].entrystart = tasks[1].entrystart
           /\ kids[n].entrystop = tasks[1].entrystop
           /\ \A i \in 1 .. n : kids[i].entrystart < kids[i].entrystop
           /\ \A i \in 1 .. n - 1 : kids[i].entrystop = kids[i + 1].entrystart
           /\ (n - 1) * c < total /\ total <= n * c

\* a split into three children, the last one smaller than the others
C4_Witness ==
    /\ WasSplit
    /\ Len(SplitChildren) = 3
    /\ tasks[1].size >= 2
    /\ current_chunksize < tasks[1].size
    /\ SplitChildren[3].size < SplitChildren[1].size

\* C18: a processing task of one event that fails with resource exhaustion
\* and has a retry left is resubmitted as a clone with the same range and one
\* retry less; the run goes on.
C18_SingleEventCloned ==
    (/\ pc # "handle"
     /\ tasks[1].size = 1
     /\ tasks[1].result = "resource_exhaustion"
     /\ tasks[1].retries_to_go >= 1
     /\ split_on_exhaustion)
    => /\ pc = "head"
       /\ Len(tasks) = 2
       /\ tasks[2].via = "clone"
       /\ tasks[2].entrystart = tasks[1].entrystart
       /\ tasks[2].entrystop = tasks[1].entrystop
       /\ tasks[2].retries_to_go = tasks[1].retries_to_go - 1
       /\ queue = {2}

(***************************************************************************)
(* _floor_to_pow2 on its own.                                              *)
(***************************************************************************)
MaxNum == 40        \* numerators are -MaxDen..MaxNum
MaxDen == 3         \* denominators are 1..MaxDen

InitLoopIdle ==
    /\ tasks = <<>>
    /\ queue = {}
    /\ task = 0
    /\ tasks_to_accumulate = <<>>
    /\ events_queued = 0
    /\ events_processed = 0
    /\ events_accumulated = 0
    /\ events_total = 0
    /\ early_terminate = FALSE
    /\ removed = {}
    /\ accumulator = NoBag
    /\ failures = 0
    /\ retries = 0
    /\ split_on_exhaustion = TRUE
    /\ chunks_per_accum = 2
    /\ sent = 0

loopvars == <<tasks, queue, task, tasks_to_accumulate, events_queued,
              events_processed, events_accumulated, events_total,
              early_terminate, removed, accumulator, failures, retries,
              split_on_exhaustion, chunks_per_accum, sent>>

InitPow2 ==
    /\ InitLoopIdle
    /\ pc = "pow2"
    /\ chunksize = 1
    /\ current_chunksize = 1
    /\ dynamic_chunksize = NoTargets
    /\ task_reports = <<>>
    /\ floored = 0
    /\ \E n \in -MaxDen .. MaxNum, d \in 1 .. MaxDen : value = Rat(n, d)

\* one call of _floor_to_pow2
CallFloorToPow2 ==
    /\ pc = "pow2"
    /\ floored = 0
    /\ floored' = FloorToPow2(value)
    /\ UNCHANGED <<pc, loopvars, chunksize, current_chunksize, dynamic_chunksize,
                   task_reports, value>>

SpecPow2 == InitPow2 /\ [][CallFloorToPow2]_vars

RECURSIVE IsPow2(_)
IsPow2(n) == n >= 1 /\ (n = 1 \/ (n % 2 = 0 /\ IsPow2(n \div 2)))

BaseChunk == 3      \* executor.chunksize
MaxReports == 4     \* reports taken
MaxSize == 3        \* a reported task has 1..MaxSize events
MaxWall == 3        \* and ran 1..MaxWall seconds
MaxTarget == 2      \* the largest resource target

\* memory measured of a task: -1 when it was not measured
Memories == {-1, 1}

\* executor.dynamic_chunksize: a dict with one or both of the keys
ResourceTargets ==
    {[wall_time |-> 1, memory |-> m] : m \in {0, MaxTarget}}
      \cup {[wall_time |-> MaxTarget], [memory |-> MaxTarget]}

InitChunk ==
    /\ InitLoopIdle
    /\ pc = "controller"
    /\ chunksize = BaseChunk
    /\ current_chunksize = BaseChunk
    /\ dynamic_chunksize \in ResourceTargets
    /\ task_reports = <<>>
    /\ value = Rat(0, 1)
    /\ floored = 0

\* _add_task_report and _update_chunksize for one successful processing task
ProcessingDone ==
    /\ pc = "controller"
    /\ Len(task_reports) < MaxReports
    /\ \E size \in 1 .. MaxSize, wall \in 1 .. MaxWall, mem \in Memories :
         LET reports == Append(task_reports, TaskReport(size, wall, mem))
         IN /\ task_reports' = reports
            /\ IF Dynamic(dynamic_chunksize)
                  /\ RaisesKeyError(dynamic_chunksize, reports)
               THEN pc' = "error" /\ UNCHANGED current_chunksize
               ELSE /\ pc' = pc
                    /\ current_chunksize' =
                          UpdateChunksize(chunksize, dynamic_chunksize, reports,
                                          current_chunksize)
    /\ UNCHANGED <<loopvars, chunksize, dynamic_chunksize, value, floored>>

SpecChunk == InitChunk /\ [][ProcessingDone]_vars

\* a recomputation has set the current chunksize
Recomputed == pc = "controller" /\ Len(task_reports) >= 1

\* the targets that are requested, and the pairs the estimator gets for one
RequestedKeys == {k \in DOMAIN dynamic_chunksize : dynamic_chunksize[k] # 0}
EstimatorPairs(key) ==
    IF key = "wall_time" THEN TimePairs(task_reports) ELSE MemoryPairs(task_reports)

\* the candidates computed for the requested targets (none with less than
\* two reports)
Computed ==
    IF Len(task_reports) > 1
    THEN {c \in {ComputeChunksizeTarget(dynamic_chunksize[k], EstimatorPairs(k)) :
                    k \in RequestedKeys} : ~c.none}
    ELSE {}

\* m of C7: the minimum of the candidates, or the base chunksize
MinOrBase(cs) ==
    IF cs = {} THEN Rat(chunksize, 1)
    ELSE (CHOOSE c \in cs : \A d \in cs : RatLeq(c.org, d.org)).org

\* n is the largest power of two not above m, and 1 when m is below 1 (the
\* value _floor_to_pow2 is specified to return there)
IsFloorPow2(n, m) ==
    IF m.num < m.den THEN n = 1
    ELSE IsPow2(n) /\ n * m.den <= m.num /\ m.num < 2 * n * m.den

\* C7: after every recomputation the current chunksize is the largest power
\* of two not above m, m the minimum of the candidates computed for the
\* requested targets, or the base chunksize when there is no candidate; it is
\* a power of two and at least 1.
C7_FloorOfMinCandidate ==
    Recomputed =>
        /\ IsFloorPow2(current_chunksize, MinOrBase(Computed))
        /\ IsPow2(current_chunksize)

\* the fit the estimator makes of the pairs of one target
FitOf(key) ==
    LET pairs == EstimatorPairs(key)
        avgs == Avgs(pairs)
    IN LinRegress(PairsFiltered(pairs, avgs, Quantile(avgs, 1)))

\* the median rate times the target
MedianCandidate(key) ==
    LET median == Quantile(Avgs(EstimatorPairs(key)), 2)
    IN Rat(median.num * dynamic_chunksize[key], median.den)

\* the targets the estimator returned a candidate for
Estimated ==
    IF Recomputed /\ Len(task_reports) > 1
    THEN {k \in RequestedKeys : EstimatorPairs(k)[1].res >= 0}
    ELSE {}

Candidate(key) == ComputeChunksizeTarget(dynamic_chunksize[key], EstimatorPairs(key)).org

\* the slope is undefined or negative, or the intercept is positive
GuardTrips(fit) == ~fit.defined \/ fit.sxy < 0 \/ fit.icp > 0

\* C9 as stated: the estimator uses the median rate with zero intercept
\* whenever the slope is negative or undefined or the intercept is positive,
\* and the candidate it returns is never negative.
C9_MedianAndNeverNegative ==
    \A k \in Estimated :
        /\ GuardTrips(FitOf(k)) => RatEq(Candidate(k), MedianCandidate(k))
        /\ Candidate(k).num >= 0

\* C9: the estimator uses the median rate with zero intercept whenever the
\* slope is negative or undefined or the intercept is positive, and the
\* candidate is then not negative; a fit that is kept gives slope * target +
\* intercept, which can be negative, and the chunksize is still at least 1.
C9_MedianWhenGuardTrips ==
    \A k \in Estimated :
        LET fit == FitOf(k) IN
        /\ GuardTrips(fit)
             => /\ RatEq(Candidate(k), MedianCandidate(k))
                /\ Candidate(k).num >= 0
        /\ ~GuardTrips(fit)
             => RatEq(Candidate(k),
                      Rat(fit.n * fit.sxy * dynamic_chunksize[k] + fit.icp,
                          fit.n * fit.sxx))
        /\ current_chunksize >= 1

\* a fit with a positive intercept, made after the slowest report was
\* dropped, is replaced by the median rate
C9_Witness ==
    /\ "wall_time" \in Estimated
    /\ LET fit == FitOf("wall_time") IN
         /\ fit.defined /\ fit.sxy >= 0 /\ fit.icp > 0
         /\ fit.n < Len(task_reports)
    /\ RatEq(Candidate("wall_time"), MedianCandidate("wall_time"))

\* C26: only the targets that are requested are evaluated: with two reports
\* or more and a dict of targets that has the wall time only (no entry for
\* the memory), the recomputation raises no error and returns the chunksize
\* of the wall time candidate; and the same for a dict that has the memory
\* only.
C26_OnlyRequestedEvaluated ==
    \A k \in {"wall_time", "memory"} :
        (DOMAIN dynamic_chunksize = {k} /\ Len(task_reports) >= 2)
        => /\ pc # "error"
           /\ LET c == ComputeChunksizeTarget(dynamic_chunksize[k], EstimatorPairs(k))
              IN IsCandidate(c) => IsFloorPow2(current_chunksize, c.org)

(***************************************************************************)
(* The run of 10 events in chunks of 5 merged two at a time, where no task *)
(* fails and no signal arrives.                                            *)
(***************************************************************************)
Scenario ==
    [events_total |-> 10, chunksize |-> 5, chunks_per_accum |-> 2,
     retries |-> 0, split_on_exhaustion |-> TRUE, failures |-> 0]

InitScenario == InitRun(Scenario)

NextScenario ==
    \/ LoopHead
    \/ SubmitProcessingTask
    \/ SubmitReturn
    \/ WaitTimeout
    \/ WaitTask
    \/ Accumulate
    \/ FinalAccumulation

SpecScenario == InitScenario /\ [][NextScenario]_vars

\* C11: in the run of 10 events in chunks of 5 with chunks_per_accum = 2 and
\* no failure or cancellation, two processing tasks of 5 events complete, one
\* accumulation task and no more is submitted and it merges both, and the run
\* ends with events_accumulated = 10 and a result that holds both processing
\* results.  (The safety part: what is submitted, and the state at the end.)
C11_OneAccumulationOfBoth ==
    /\ \A t \in TaskIds : tasks[t].category = "processing" => tasks[t].size = 5
    /\ Cardinality(AccumIds) <= 1
    /\ \A a \in AccumIds : Children(a) = {1, 2}
    /\ pc # "error"
    /\ pc = "done" => /\ Cardinality(AccumIds) = 1
                      /\ events_accumulated = 10
                      /\ accumulator = SetToBag({1, 2})

(***************************************************************************)
(* Cancellation, termination and the files of the tasks, in the runs of    *)
(* Spec.                                                                   *)
(***************************************************************************)
\* the processing tasks cancel_by_category took from the service: they were
\* never returned by wait() and are not in flight
Cancelled == {t \in TaskIds : /\ tasks[t].category = "processing"
                              /\ tasks[t].result = "none"
                              /\ t \notin queue}

\* C12: when the signal fires while 3 processing tasks are in flight and 2
\* results are pending, the processing tasks are canceled, the 2 pending
\* results are flushed into one accumulation task, and the run returns a
\* partial result with events_accumulated < events_total.
C12_CancelFlushesPending ==
    (/\ pc = "done"
     /\ early_terminate
     /\ Cardinality(Cancelled) = 3
     /\ Cardinality(Completed) = 2)
    => /\ \E a \in AccumIds : AccumIds = {a} /\ Children(a) = Completed
       /\ events_accumulated < events_total
       /\ accumulator = SetToBag(Completed)

\* an input file of accumulation task t was removed before wait() returned
\* t: a task returned earlier has it as input too
InputsGone(t) ==
    /\ t = task
    /\ \E a \in AccumIds \ {t} :
          tasks[a].result # "none" /\ Children(a) \cap Children(t) # {}

\* no task has failed so far, but for want of an input file that the run
\* has removed itself
NoTaskFailed ==
    \A t \in TaskIds : tasks[t].result \in {"none", "success"} \/ InputsGone(t)

\* C13: whenever the first signal fires, the run ends by returning a partial
\* result; the cancellation never makes the run end with a raised failure.
\* (Stated for the runs which the signal ends, events_accumulated being
\* below events_total, in which a processing task has completed, so that there
\* is a result to return, and no task has failed.)
C13_CancelNeverRaises ==
    (/\ early_terminate
     /\ events_accumulated < events_total
     /\ NoTaskFailed
     /\ Completed # {})
    => pc # "error"

(***************************************************************************)
(* Runs of a single chunk, under fairness: the control thread goes on, and *)
(* the service returns a task that it holds (wait(5) does not time out for *)
(* ever while a task can be returned).  Nothing makes a signal arrive.     *)
(***************************************************************************)
LiveRuns ==
    {[events_total |-> MaxChunk, chunksize |-> MaxChunk, chunks_per_accum |-> 2,
      retries |-> r, split_on_exhaustion |-> TRUE, failures |-> 1] : r \in 0 .. 1}

InitLive == \E run \in LiveRuns : InitRun(run)

SpecLive ==
    /\ InitLive
    /\ [][Next]_vars
    /\ WF_vars(LoopHead)
    /\ WF_vars(SubmitProcessingTask)
    /\ WF_vars(SubmitReturn)
    /\ SF_vars(WaitTask)
    /\ WF_vars(Resubmit)
    /\ WF_vars(Accumulate)
    /\ WF_vars(FinalAccumulation)

\* C14: in a run without cancellation and without fatal failure, in which the
\* service completes every submitted task, the processing loop eventually
\* exits, and it exits only with events_accumulated >= events_total.
C14_LoopExits ==
    /\ <>(early_terminate \/ ~Running)
    /\ [](pc = "final" /\ ~early_terminate => events_accumulated >= events_total)

\* the tasks a step has built
NewTasks == Len(tasks) + 1 .. Len(tasks')

\* C15: once early_terminate is set no processing task is submitted, neither
\* by _submit_processing_tasks nor by the resubmission of a failed processing
\* task.
C15_NoProcessingAfterCancel ==
    [][early_terminate
         => \A t \in NewTasks : tasks'[t].category # "processing"]_vars

\* the tasks that still need the output of task t as an input: t is pending,
\* or a child of an accumulation task in flight
NeededBy(t) ==
    {a \in AccumIds \cap queue : t \in Children(a)}
        \cup (IF t \in Pending THEN {0} ELSE {})

\* C16: while the loop runs, the output of a task is not removed as long as
\* the task is pending or is an input of an accumulation task in flight (a
\* clone of a failed accumulation task among them).
C16_OutputKeptWhileNeeded ==
    Running => \A t \in removed : NeededBy(t) = {}

\* C17: events_queued, events_processed and events_accumulated never decrease
\* in a step, and events_total never changes.
C17_CountersMonotone ==
    [][/\ events_queued' >= events_queued
       /\ events_processed' >= events_processed
       /\ events_accumulated' >= events_accumulated
       /\ events_total' = events_total]_vars

\* the three counters have been raised, events_accumulated more than once
C17_Witness ==
    /\ events_queued = events_total
    /\ events_processed > 0
    /\ events_accumulated > 0
    /\ Cardinality({a \in AccumIds : tasks[a].result = "success"}) >= 2

\* the step resubmit() makes for the task wait() returned
ResubmitStep == pc = "handle" /\ pc' \in {"head", "fatal", "error"}
                  /\ tasks[task].result # "success"

\* C19: an accumulation task that fails with a retry left, for whatever
\* reason, is resubmitted as one accumulation task over the same list of
\* children.
C19_AccumulationRetried ==
    [][(/\ ResubmitStep
        /\ tasks[task].category = "accumulating"
        /\ tasks[task].retries_to_go >= 1
        /\ split_on_exhaustion)
       => /\ pc' = "head"
          /\ Len(tasks') = Len(tasks) + 1
          /\ tasks'[Len(tasks')].category = "accumulating"
          /\ tasks'[Len(tasks')].children = tasks[task].children
          /\ queue' = queue \cup {Len(tasks')}]_vars

\* the step of the loop body that calls _submit_accum_tasks
SchedulerStep == pc = "handle" /\ pc' = "head" /\ tasks[task].result = "success"

\* C20: a call of _submit_accum_tasks with fewer than 2 * chunks_per_accum - 1
\* pending tasks and without force, that is with events_processed below
\* events_total and no cancellation, submits nothing and leaves the pending
\* list as it is.
C20_NoFlushBelowThreshold ==
    [][(/\ SchedulerStep
        /\ Len(tasks_to_accumulate) + 1 < 2 * chunks_per_accum - 1
        /\ ~(events_processed' >= events_total \/ early_terminate))
       => /\ tasks' = tasks
          /\ queue' = queue
          /\ tasks_to_accumulate' = Append(tasks_to_accumulate, task)]_vars

\* such a call has returned: more than chunks_per_accum tasks are pending and
\* none was merged
C20_Witness ==
    /\ pc = "head"
    /\ ~early_terminate
    /\ events_processed < events_total
    /\ Len(tasks_to_accumulate) > chunks_per_accum
    /\ tasks_to_accumulate[Len(tasks_to_accumulate)] = task
    /\ AccumIds = {}

(***************************************************************************)
(* Runs of single-event chunks in which _submit_accum_tasks is called both *)
(* without force (2 * chunks_per_accum - 1 results are pending before the  *)
(* last chunk is processed) and with force.  No task fails for a reason of *)
(* the service, and the steps are those that lead to a call of the         *)
(* scheduler or change what it reads.                                      *)
(***************************************************************************)
FlushRuns ==
    {[events_total |-> 2 * k, chunksize |-> 1, chunks_per_accum |-> k,
      retries |-> 0, split_on_exhaustion |-> TRUE, failures |-> 0] : k \in 2 .. MaxAccum}

InitFlush == \E run \in FlushRuns : InitRun(run)

NextFlush ==
    \/ LoopHead
    \/ SubmitProcessingTask
    \/ SubmitReturn
    \/ WaitTask
    \/ Accumulate
    \/ FirstSignal
    \/ FinalAccumulation

SpecFlush == InitFlush /\ [][NextFlush]_vars

\* force as the call of _submit_accum_tasks in a step computes it, after the
\* increment of events_processed
ForceInStep == Force(events_processed', events_total, early_terminate)

\* C21: every accumulation task that _submit_accum_tasks submits has exactly
\* chunks_per_accum children when force is off, and between 2 and
\* chunks_per_accum children when force is on; a single task is never
\* submitted as an accumulation task.
C21_GroupSizes ==
    [][SchedulerStep
         => \A a \in NewTasks :
               /\ tasks'[a].category = "accumulating"
               /\ Len(tasks'[a].children) >= 2
               /\ Len(tasks'[a].children) <= chunks_per_accum
               /\ ~ForceInStep => Len(tasks'[a].children) = chunks_per_accum]_vars

\* a run without cancellation in which a full group was submitted (the first
\* flush of such a run is at 2 * chunks_per_accum - 1 pending tasks, before
\* the last chunk is processed) and later, under force, a group of two tasks
\* with chunks_per_accum = 3
C21_Witness ==
    /\ ~early_terminate
    /\ chunks_per_accum = 3
    /\ \E a, b \in AccumIds :
          /\ a < b
          /\ Len(tasks[a].children) = 3
          /\ \A c \in Children(a) : tasks[c].category = "processing"
          /\ Len(tasks[b].children) = 2

\* the tasks placed in a group that the scheduler submits in a step
Emitted == UNION {{tasks'[a].children[i] : i \in 1 .. Len(tasks'[a].children)} :
                    a \in NewTasks}

\* C22: after a call of _submit_accum_tasks that submits at least one
\* accumulation task, tasks_to_accumulate holds exactly the tasks that were
\* not placed in a submitted group: the retained last group, or nothing when
\* every group was submitted.
C22_PendingIsRemainder ==
    [][(SchedulerStep /\ NewTasks # {})
         => {tasks_to_accumulate'[i] : i \in 1 .. Len(tasks_to_accumulate')}
               = (Pending \cup {task}) \ Emitted]_vars

\* the group that a call of the scheduler which submitted a task has retained:
\* the list the break of the loop has assigned
Retained ==
    LET left == {tasks_to_accumulate'[i] : i \in 1 .. Len(tasks_to_accumulate')}
    IN IF left \cap Emitted = {} THEN left ELSE {}

\* C23: within one call of _submit_accum_tasks the groups follow ascending
\* output size: a task of an earlier group has an output no larger than a task
\* of a later group, and the retained group, if any, holds the largest outputs.
C23_GroupsAscending ==
    [][(SchedulerStep /\ NewTasks # {})
         => /\ \A a, b \in NewTasks :
                 a < b => \A i \in 1 .. Len(tasks'[a].children),
                             j \in 1 .. Len(tasks'[b].children) :
                               tasks'[tasks'[a].children[i]].fout_size
                                  <= tasks'[tasks'[b].children[j]].fout_size
            /\ \A x \in Emitted, y \in Retained :
                 tasks'[x].fout_size <= tasks'[y].fout_size]_vars

\* a call without force has just submitted a group of two and retained one
\* task: the task that arrived last is in the group, and the retained task
\* has a larger output
C23_Witness ==
    /\ pc = "head"
    /\ ~Force(events_processed, events_total, early_terminate)
    /\ chunks_per_accum = 2
    /\ Len(tasks_to_accumulate) = 1
    /\ Len(tasks) > 0
    /\ tasks[Len(tasks)].category = "accumulating"
    /\ task \in Children(Len(tasks))
    /\ tasks[tasks_to_accumulate[1]].fout_size > tasks[task].fout_size

(***************************************************************************)
(* The signals, in a run of single-event chunks in which an accumulation   *)
(* task is submitted while processing tasks are in flight.                 *)
(***************************************************************************)
SignalRuns ==
    {[events_total |-> MaxEvents, chunksize |-> 1, chunks_per_accum |-> 2,
      retries |-> 0, split_on_exhaustion |-> TRUE, failures |-> 1]}

InitSignal == \E run \in SignalRuns : InitRun(run)

SpecSignal == InitSignal /\ [][Next]_vars

\* wait() has returned the task and the loop body has not handled it yet: the
\* body appends a successful task to tasks_to_accumulate, where it stays or
\* from where it goes into a group
Unhandled(t) ==
    /\ t # 0
    /\ tasks[t].result = "success"
    /\ t \notin Pending
    /\ \A a \in AccumIds : t \notin Children(a)

\* C24: the first signal sets early_terminate and cancels the processing
\* tasks only, every accumulation task in flight stays in flight; a signal
\* that arrives while early_terminate is set raises KeyboardInterrupt and
\* cancels nothing.
C24_SignalsCancelProcessingOnly ==
    [][/\ (~early_terminate /\ early_terminate')
          => /\ queue' = {id \in queue : tasks[id].category = "accumulating"}
             /\ AccumIds \cap queue \subseteq queue'
             /\ tasks' = tasks
             /\ pc' = pc
       /\ (early_terminate /\ pc # "interrupted" /\ pc' = "interrupted")
          => /\ queue' = queue
             /\ tasks' = tasks
             /\ early_terminate'
       /\ pc' = "interrupted" => early_terminate]_vars

\* the first signal has arrived between wait() and the handling of the
\* processing task that wait() returned (no processing task is returned after
\* the signal), an accumulation task and another processing task being in
\* flight: the processing task was cancelled, the accumulation task is still
\* in flight when the second signal has ended the run
C24_Witness ==
    /\ pc = "interrupted"
    /\ early_terminate
    /\ Unhandled(task)
    /\ tasks[task].category = "processing"
    /\ Cancelled # {}
    /\ AccumIds \cap queue # {}

(***************************************************************************)
(* The drain after a signal, in a run of four single-event chunks merged   *)
(* two at a time, under fairness: the control thread goes on, wait(5)      *)
(* returns, and the service returns a task that it holds.                  *)
(***************************************************************************)
DrainRuns ==
    {[events_total |-> 4, chunksize |-> 1, chunks_per_accum |-> 2,
      retries |-> 0, split_on_exhaustion |-> TRUE, failures |-> 1]}

InitDrain == \E run \in DrainRuns : InitRun(run)

\* a step of the control thread that leaves the place it is at (the loop of
\* _submit_processing_tasks stays at its place while it submits, and it
\* submits a bounded number of tasks)
Advance ==
    /\ Running \/ pc = "final"
    /\ pc' \in {"head", "submit", "wait", "handle", "final", "done", "fatal", "error"}
    /\ pc' # pc

SpecDrain ==
    /\ InitDrain
    /\ [][Next]_vars
    /\ WF_pc(Advance)
    /\ SF_vars(WaitTask)

\* C25: after the first signal, when the service completes every accumulation
\* task in flight and none fails fatally, the processing loop eventually exits
\* (a run that ends with a raised failure or an interrupt is not in the scope
\* of the claim), and it exits at the first test of the loop at which the
\* service holds no task: not while the service holds one, and not later.
C25_DrainExits ==
    /\ <>early_terminate => <>(~Running)
    /\ [][(early_terminate /\ pc = "head" /\ pc' = "final") => queue = {}]_vars
    /\ [][(early_terminate /\ pc = "head" /\ queue = {}) => pc' # "submit"]_vars

(***************************************************************************)
(* Runs with dynamic chunksize, where the wall time target is requested    *)
(* and every task reports 1 second, and the same runs without dynamic      *)
(* chunksize.  No task fails.                                              *)
(***************************************************************************)
MaxBase == 4        \* the largest executor.chunksize of these runs

SampleRuns ==
    {[events_total |-> 3, chunksize |-> 1, chunks_per_accum |-> 2,
      retries |-> 0, split_on_exhaustion |-> TRUE, failures |-> 0],
     [events_total |-> 2 * MaxBase, chunksize |-> MaxBase, chunks_per_accum |-> 2,
      retries |-> 0, split_on_exhaustion |-> TRUE, failures |-> 0]}

SampleTargets == [wall_time |-> 1, memory |-> 0]

InitSample ==
    \E run \in SampleRuns, targets \in {SampleTargets, NoTargets} :
        InitRunWith(run, targets)

SpecSample == InitSample /\ [][NextFlush]_vars

\* a turn of the loop of _submit_processing_tasks that submits a task
SubmissionStep == pc = "submit" /\ Len(tasks') = Len(tasks) + 1

\* the pull of the item source of that turn is items.send()
Sends == Dynamic(dynamic_chunksize) /\ events_queued > 0

\* C27: for a current chunksize c of at least 1, a sampled size that is sent
\* to the item source is c or max(floor(c / 2), 1), so it is in 1..c; and
\* the sampling does not change the current chunksize.
C27_SampleInRange ==
    [][(SubmissionStep /\ Sends /\ current_chunksize >= 1)
         => /\ sent' \in {current_chunksize, Max(current_chunksize \div 2, 1)}
            /\ 1 <= sent' /\ sent' <= current_chunksize
            /\ current_chunksize' = current_chunksize]_vars

\* half of the current chunksize was sent, and the item source has handed out
\* an item of that size (with one report at most, the current chunksize is
\* still the one the run started with)
C27_Witness ==
    /\ pc = "submit"
    /\ Len(task_reports) <= 1
    /\ current_chunksize = MaxBase
    /\ sent = MaxBase \div 2
    /\ tasks[Len(tasks)].category = "processing"
    /\ tasks[Len(tasks)].size = sent

\* C28: _submit_processing_tasks submits a task only while early_terminate
\* is not set, the queue is hungry and events_queued < events_total; the first
\* item of a run is pulled with next(items), without a chunksize; with dynamic
\* chunksize every later pull sends a sampled chunksize, and without dynamic
\* chunksize no pull sends one.
C28_SubmissionGuardsAndHints ==
    [][SubmissionStep
         => /\ ~early_terminate
            /\ Hungry(queue)
            /\ events_queued < events_total
            /\ tasks'[Len(tasks')].category = "processing"
            /\ Len(tasks) = 0 => sent' = 0
            /\ (Dynamic(dynamic_chunksize) /\ Len(tasks) > 0)
                  => sent' \in SampleChunksize(current_chunksize) /\ sent' >= 1
            /\ ~Dynamic(dynamic_chunksize) => sent' = 0]_vars

\* in a run with dynamic chunksize the first item was pulled without a
\* chunksize (it has executor.chunksize events) and a later pull has sent one
C28_Witness ==
    /\ Dynamic(dynamic_chunksize)
    /\ pc = "submit"
    /\ Len(tasks) >= 2
    /\ tasks[1].size = chunksize
    /\ tasks[Len(tasks)].category = "processing"
    /\ sent >= 1
    /\ tasks[Len(tasks)].size = sent

(***************************************************************************)
(* The counters and the end of the loop, in the runs of Spec.              *)
(***************************************************************************)
\* C29: in every state of the processing loop events_accumulated <=
\* events_processed <= events_queued: an event is counted as accumulated once
\* however many levels of accumulation it passes, and the tasks of a split or
\* a clone do not make events_processed exceed events_queued.
C29_CountersOrdered ==
    /\ events_accumulated <= events_processed
    /\ events_processed <= events_queued

\* C30: when the processing loop has exited without cancellation, the service
\* holds no task: no accumulation task is in flight whose result the final
\* accumulation does not merge.
C30_NothingInFlightAtExit ==
    (pc \in {"final", "done"} /\ ~early_terminate) => queue = {}

(***************************************************************************)
(* Chains of splits: one processing task has failed with resource          *)
(* exhaustion, and the tasks it is split into may fail in turn.  Every     *)
(* size of the task and every current chunksize up to the bounds.          *)
(***************************************************************************)
MaxItem == 4        \* the task has 2..MaxItem events
MaxSplits == 2      \* failed tasks the service returns after the first one

InitChain ==
    /\ pc = "handle"
    /\ task = 1
    /\ queue = {}
    /\ tasks_to_accumulate = <<>>
    /\ events_processed = 0
    /\ events_accumulated = 0
    /\ early_terminate = FALSE
    /\ removed = {}
    /\ accumulator = NoBag
    /\ failures = MaxSplits
    /\ chunks_per_accum = 2
    /\ dynamic_chunksize = NoTargets
    /\ task_reports = <<>>
    /\ sent = 0
    /\ value = Rat(0, 1)
    /\ floored = 0
    /\ retries = 1
    /\ split_on_exhaustion = TRUE
    /\ current_chunksize \in 1 .. MaxItem
    /\ chunksize = MaxItem
    /\ \E len \in 2 .. MaxItem :
         /\ tasks = <<[ProcTask(1, 0, len, 1, retries, 0, "item")
                         EXCEPT !.result = "resource_exhaustion"]>>
         /\ events_queued = len
         /\ events_total = len

NextChain ==
    \/ LoopHead
    \/ SubmitReturn
    \/ WaitTask
    \/ Resubmit
    \/ Accumulate
    \/ FinalAccumulation

SpecChain == InitChain /\ [][NextChain]_vars

\* the number of splits between the first task and task t (a clone is at
\* the depth of the task it retries)
RECURSIVE SplitDepth(_)
SplitDepth(t) ==
    IF tasks[t].via = "split" THEN 1 + SplitDepth(tasks[t].parent)
    ELSE IF tasks[t].via = "clone" THEN SplitDepth(tasks[t].parent)
    ELSE 0

\* C31: for a processing task of 2 events or more and a current chunksize of
\* 1 or more, every task a split builds has at least 1 event and fewer events
\* than the task that was split; so a chain of splits is finite (a task at
\* depth d has at most size - d events of the first task) and ends with
\* tasks of 1 event, which are never split.
C31_SplitShrinks ==
    \A t \in TaskIds :
        tasks[t].via = "split"
        => LET p == tasks[tasks[t].parent] IN
           /\ p.category = "processing"
           /\ p.size >= 2
           /\ tasks[t].size >= 1
           /\ tasks[t].size < p.size
           /\ SplitDepth(t) + tasks[t].size <= tasks[1].size

\* a chain of two splits has ended: a task of 1 event, built by the split of a
\* task that a split had built, has failed with resource exhaustion, and
\* split() has raised for it
C31_Witness ==
    /\ pc = "error"
    /\ task # 0
    /\ tasks[task].size = 1
    /\ tasks[task].result = "resource_exhaustion"
    /\ tasks[task].via = "split"
    /\ tasks[tasks[task].parent].via = "split"
    /\ \A c \in TaskIds : tasks[c].parent # task

=============================================================================
